---- MODULE Spec2Model ----
(***************************************************************************)
(* A model of the Flix backend (src/main.py): the route handlers           *)
(* read_root, seed_movies, get_rows and test_database, the helper          *)
(* serialize_movie, and the store gateway they call (database.py: db,      *)
(* create_document, get_documents), which is modelled from the             *)
(* specification's section 4.1 because its source is not in the tree.      *)
(*                                                                         *)
(* Python values are tagged records, so that None, the string "None", a    *)
(* number and an ObjectId are different values; a dict is a function from  *)
(* its keys (strings) to values.  The two non-ASCII hyphens of the source  *)
(* literals (U+2011 in "Sci-Fi" and "Spider-Verse") are written "-".       *)
(***************************************************************************)
EXTENDS Integers, Sequences, FiniteSets, TLC

VARIABLES
    envUrl,     \* DATABASE_URL is set in the process environment
    envName,    \* DATABASE_NAME is set in the process environment
    movie,      \* the documents of the store's "movie" collection, in store order
    nextId,     \* the store's generator of document ids
    others,     \* the names of the store's collections other than "movie"
    resp,       \* the response of the last request: route, status, body
    raised,     \* what the last request's store calls raised ("" when nothing)
    doc,        \* the argument of the last direct serialize_movie call
    out         \* the value that call returned

vars == <<envUrl, envName, movie, nextId, others, resp, raised, doc, out>>

\* ------------------------------------------------------------------ bounds

\* The store holds at most this many collections besides "movie".
MaxOthers == 11
\* The longest exception text, in characters.
MaxErrLen == 52
\* The most documents an externally populated "movie" collection holds.
MaxDocs == 3

\* ------------------------------------------------------------ Python values

None == [t |-> "null"]
Str(s) == [t |-> "str", v |-> s]
IntV(n) == [t |-> "int", n |-> n]
\* A float with one decimal, held as its number of tenths (8.8 is FloatV(88)).
FloatV(x) == [t |-> "float", tenths |-> x]
ObjectId(n) == [t |-> "oid", oid |-> n]

\* Python's truth value of v (what `not v` and `v or d` test).
Truthy(v) ==
    CASE v.t = "null" -> FALSE
      [] v.t = "str" -> v.v # ""
      [] v.t = "int" -> v.n # 0
      [] v.t = "float" -> v.tenths # 0
      [] OTHER -> TRUE

\* str(v): the text of a value.  str(None) is the four letters "None".
PyStr(v) ==
    CASE v.t = "null" -> Str("None")
      [] v.t = "str" -> v
      [] v.t = "int" -> Str(ToString(v.n))
      [] v.t = "float" -> Str(ToString(v.tenths))
      [] OTHER -> Str("oid" \o ToString(v.oid))

EmptyDict == <<>>

\* d.get(k): the value under k, None when d has no key k.
Get(d, k) == IF k \in DOMAIN d THEN d[k] ELSE None

\* s[:n] of a sequence.
Prefix(s, n) == SubSeq(s, 1, IF Len(s) < n THEN Len(s) ELSE n)

\* ---------------------------------------------------------- serialize_movie

MovieKeys == {"id", "title", "image", "category", "description", "year", "rating"}

\* A serializer that shows only the attributes the document has.
serialize_movie_sparse(d) ==
    [k \in { k \in MovieKeys : k = "id" \/ k \in DOMAIN d } |->
        IF k = "id" THEN PyStr(Get(d, "_id")) ELSE d[k]]

serialize_movie(d) ==
    IF DOMAIN d = {}
    THEN EmptyDict
    ELSE [id |-> PyStr(Get(d, "_id")),
          title |-> Get(d, "title"),
          image |-> Get(d, "image"),
          category |-> Get(d, "category"),
          description |-> Get(d, "description"),
          year |-> Get(d, "year"),
          rating |-> Get(d, "rating")]

\* ------------------------------------------------------------- sample data

Sample(title, image, category, description, year, rating) ==
    [title |-> Str(title), image |-> Str(image), category |-> Str(category),
     description |-> Str(description), year |-> IntV(year), rating |-> FloatV(rating)]

sample_movies ==
    << Sample("Inception",
              "https://image.tmdb.org/t/p/w780/s3TBrRGB1iav7gFOCNx3H31MoES.jpg",
              "Popular on FLIX",
              "A thief who steals corporate secrets through dream-sharing tech.",
              2010, 88),
       Sample("Interstellar",
              "https://image.tmdb.org/t/p/w780/rAiYTfKGqDCRIIqo664sY9XZIvQ.jpg",
              "Trending Now",
              "A team travels through a wormhole in search of a new home for mankind.",
              2014, 86),
       Sample("The Dark Knight",
              "https://image.tmdb.org/t/p/w780/qJ2tW6WMUDux911r6m7haRef0WH.jpg",
              "Top Picks for You",
              "Batman faces the Joker, a criminal mastermind.",
              2008, 90),
       Sample("Dune",
              "https://image.tmdb.org/t/p/w780/d5NXSklXo0qyIYkgV94XAgMIckC.jpg",
              "Because you watched Sci-Fi",
              "Paul Atreides must travel to the most dangerous planet in the universe.",
              2021, 82),
       Sample("Joker",
              "https://image.tmdb.org/t/p/w780/udDclJoHjfjb8Ekgsd4FDteOkCU.jpg",
              "Popular on FLIX",
              "The origin story of the iconic villain.",
              2019, 84),
       Sample("Spider-Verse",
              "https://image.tmdb.org/t/p/w780/8Vt6mWEReuy4Of61Lnj5Xj704m8.jpg",
              "Trending Now",
              "Miles Morales returns for the next chapter of the Spider-Verse saga.",
              2023, 87),
       Sample("Oppenheimer",
              "https://image.tmdb.org/t/p/w780/8Gxv8gSFCU0XGDykEGv7zR1n2ua.jpg",
              "Top Picks for You",
              "The story of J. Robert Oppenheimer and the atomic bomb.",
              2023, 85),
       Sample("Barbie",
              "https://image.tmdb.org/t/p/w780/iuFNMS8U5cb6xfzi51Dbkovj7vM.jpg",
              "Because you watched Sci-Fi",
              "Barbie and Ken's adventures in the real world.",
              2023, 72),
       Sample("Avatar: The Way of Water",
              "https://image.tmdb.org/t/p/w780/t6HIqrRAclMCA60NsSmeqe9RmNV.jpg",
              "Popular on FLIX",
              "Jake Sully lives with his newfound family on Pandora.",
              2022, 76),
       Sample("John Wick 4",
              "https://image.tmdb.org/t/p/w780/vZloFAK7NmvMGKE7VkF5UHaz0I.jpg",
              "Trending Now",
              "John Wick uncovers a path to defeating The High Table.",
              2023, 79) >>

\* N of the specification: the number of sample records.
N == Len(sample_movies)

FallbackEntry(id, title, image) ==
    [id |-> Str(id), title |-> Str(title), image |-> Str(image)]

fallback ==
    (Str("Popular on FLIX") :>
        << FallbackEntry("1", "Inception",
               "https://image.tmdb.org/t/p/w780/s3TBrRGB1iav7gFOCNx3H31MoES.jpg"),
           FallbackEntry("2", "Interstellar",
               "https://image.tmdb.org/t/p/w780/rAiYTfKGqDCRIIqo664sY9XZIvQ.jpg") >>)
    @@ (Str("Trending Now") :>
        << FallbackEntry("3", "The Dark Knight",
               "https://image.tmdb.org/t/p/w780/qJ2tW6WMUDux911r6m7haRef0WH.jpg"),
           FallbackEntry("4", "Dune",
               "https://image.tmdb.org/t/p/w780/d5NXSklXo0qyIYkgV94XAgMIckC.jpg") >>)
    @@ (Str("Top Picks for You") :>
        << FallbackEntry("5", "Joker",
               "https://image.tmdb.org/t/p/w780/udDclJoHjfjb8Ekgsd4FDteOkCU.jpg") >>)
    @@ (Str("Because you watched Sci-Fi") :>
        << FallbackEntry("6", "Spider-Verse",
               "https://image.tmdb.org/t/p/w780/8Vt6mWEReuy4Of61Lnj5Xj704m8.jpg") >>)

\* ----------------------------------------------- the store gateway (4.1)

\* db is not None: the connection is made once, at start, from the environment.
DbConfigured == envUrl /\ envName

\* create_document(collection, data): appends data, under a generated id.
create_document(store, id, data) == Append(store, ("_id" :> ObjectId(id)) @@ data)

\* get_documents(collection): every document, in store order.
get_documents(store) == store

\* db[collection].count_documents({}).
count_documents(store) == Len(store)

\* db.list_collection_names(): a collection exists once it holds a document.
list_collection_names(store, names) ==
    (IF Len(store) > 0 THEN <<"movie">> ELSE <<>>) \o names

\* A store call either returns or raises.  A request's store calls are numbered
\* from 1 in the order the handler makes them; f is the number of the call that
\* raises, 0 when none does.
SeedFaults == 0 .. (N + 1)
ReadFaults == 0 .. 1

\* The texts of the exceptions the store raises: their lengths matter only.
ErrTexts == { [i \in 1 .. n |-> i % 10] : n \in {0} \cup ((MaxErrLen - 3) .. MaxErrLen) }

\* The names of k other collections.
OtherNames(k) == [i \in 1 .. k |-> "c" \o ToString(i)]

\* ---------------------------------------------------------------- responses

Http(route, status, body) == [route |-> route, status |-> status, body |-> body]

NoResponse == Http("", 0, <<>>)
\* The value of out before serialize_movie is called.
NotCalled == [called |-> FALSE]

\* What a handler leaves behind: the collection, the id generator, the response,
\* and the store call that raised.
Outcome(store, id, response, exc) ==
    [movie |-> store, nextId |-> id, resp |-> response, raised |-> exc]

\* An exception no handler catches: the framework answers 500.
Unhandled(route) == Http(route, 500, [detail |-> "Internal Server Error"])

\* ----------------------------------------------------------------- read_root

read_root == Http("root", 200, [message |-> "Flix backend running"])

\* --------------------------------------------------------------- seed_movies

AlreadySeededNever(existing) == FALSE

\* `if existing > 0`.
AlreadySeeded(existing) == existing > 0

\* The insert loop from sample i on; call number i + 1 of the request is the
\* insert of sample i.
RECURSIVE SeedLoop(_, _, _, _, _)
SeedLoop(store, id, i, inserted, f) ==
    IF i > N
    THEN [store |-> store, id |-> id, inserted |-> inserted, raised |-> FALSE]
    ELSE IF f = i + 1
    THEN [store |-> store, id |-> id, inserted |-> inserted, raised |-> TRUE]
    ELSE SeedLoop(create_document(store, id, sample_movies[i]), id + 1, i + 1,
                  inserted + 1, f)

seed_movies(configured, store, id, f) ==
    IF ~configured
    THEN Outcome(store, id,
                 Http("seed", 500, [detail |-> "Database not configured"]),
                 "db is None")
    ELSE IF f = 1
    THEN Outcome(store, id, Unhandled("seed"), "count_documents")
    ELSE IF AlreadySeeded(count_documents(store))
    THEN Outcome(store, id,
                 Http("seed", 200, [status |-> "ok", inserted |-> 0,
                                    message |-> "Movies already seeded"]),
                 "")
    ELSE LET r == SeedLoop(store, id, 1, 0, f)
         IN  IF r.raised
             THEN Outcome(r.store, r.id, Unhandled("seed"), "create_document")
             ELSE Outcome(r.store, r.id,
                          Http("seed", 200, [status |-> "ok", inserted |-> r.inserted]),
                          "")

\* ------------------------------------------------------------------ get_rows

\* get_documents raises when db is None or the read fails.
ReadMovies(configured, store, f) ==
    IF configured /\ f # 1
    THEN [ok |-> TRUE, docs |-> get_documents(store),
          exc |-> ""]
    ELSE [ok |-> FALSE, docs |-> <<>>,
          exc |-> IF configured THEN "get_documents" ELSE "db is None"]

TryGetDocumentsUncaught(read) ==
    [status |-> IF read.ok THEN 200 ELSE 500, docs |-> read.docs]

\* try: docs = get_documents("movie"); except Exception: docs = [].
TryGetDocuments(read) ==
    [status |-> 200, docs |-> IF read.ok THEN read.docs ELSE <<>>]

CategoryNoDefault(m) == Get(m, "category")

\* cat = m.get("category") or "Featured".
Category(m) ==
    LET c == Get(m, "category")
    IN  IF Truthy(c) THEN c ELSE Str("Featured")

AddToRowFront(rows, m) ==
    LET cat == Category(m)
    IN  IF cat \in DOMAIN rows
        THEN [rows EXCEPT ![cat] = <<m>> \o @]
        ELSE rows @@ (cat :> <<m>>)

\* rows.setdefault(cat, []).append(m).
AddToRow(rows, m) ==
    LET cat == Category(m)
    IN  IF cat \in DOMAIN rows
        THEN [rows EXCEPT ![cat] = Append(@, m)]
        ELSE rows @@ (cat :> <<m>>)

\* The loop over movies[i ..], in order.
RECURSIVE GroupRows(_, _, _)
GroupRows(movies, i, rows) ==
    IF i > Len(movies)
    THEN rows
    ELSE GroupRows(movies, i + 1, AddToRow(rows, movies[i]))

RowsBodyNoFallback(rows) == rows

RowsBodyInverted(rows) == IF DOMAIN rows = {} THEN rows ELSE fallback

\* if not rows: return fallback; return rows.
RowsBody(rows) == IF DOMAIN rows = {} THEN fallback ELSE rows

\* The handler; an exception that left the try would end the request with 500,
\* and `except Exception` lets none leave.
get_rows_impl(configured, store, id, f) ==
    LET read == ReadMovies(configured, store, f)
        got == TryGetDocuments(read)
        movies == [i \in 1 .. Len(got.docs) |-> serialize_movie(got.docs[i])]
        rows == GroupRows(movies, 1, EmptyDict)
    IN  IF got.status # 200
        THEN Outcome(store, id, Unhandled("rows"), read.exc)
        ELSE Outcome(store, id, Http("rows", 200, RowsBody(rows)), read.exc)

\* A read that takes the documents it returns out of the collection.
get_rows_consuming(configured, store, id, f) ==
    LET o == get_rows_impl(configured, store, id, f)
    IN  IF o.raised = "" THEN [o EXCEPT !.movie = <<>>] ELSE o

get_rows(configured, store, id, f) == get_rows_impl(configured, store, id, f)

\* ------------------------------------------------------------- test_database

CollectionsLimit == 10
ErrorTextLimit == 50

CollectionsShownAll(names) == names

\* collections[:10].
CollectionsShown(names) == Prefix(names, CollectionsLimit)

\* The response's "database" line: its wording, and the exception text it quotes.
DatabaseLine(wording, text) == [wording |-> wording, text |-> text]

\* The emoji that open the source's status strings are left out.
test_database(configured, store, id, names, f, e, url, name) ==
    LET listed == configured /\ f # 1
        response ==
            [backend |-> "Running",
             database |->
                 IF ~configured
                 THEN DatabaseLine("Available but not initialized", <<>>)
                 ELSE IF listed
                 THEN DatabaseLine("Connected & Working", <<>>)
                 ELSE DatabaseLine("Connected but Error: ", Prefix(e, ErrorTextLimit)),
             database_url |-> IF url THEN "Set" ELSE "Not Set",
             database_name |-> IF name THEN "Set" ELSE "Not Set",
             connection_status |-> IF configured THEN "Connected" ELSE "Not Connected",
             collections |->
                 IF listed
                 THEN CollectionsShown(list_collection_names(store, names))
                 ELSE <<>>]
    IN  Outcome(store, id, Http("test", 200, response),
                IF configured /\ ~listed THEN "list_collection_names" ELSE "")

\* ------------------------------------------------------------------- actions

\* GET /
ReadRoot ==
    /\ resp' = read_root
    /\ raised' = ""
    /\ UNCHANGED <<envUrl, envName, movie, nextId, others, doc, out>>

\* POST /api/seed, with any one of its store calls raising, or none.
SeedMovies ==
    \E f \in SeedFaults :
        LET o == seed_movies(DbConfigured, movie, nextId, f)
        IN  /\ movie' = o.movie
            /\ nextId' = o.nextId
            /\ resp' = o.resp
            /\ raised' = o.raised
            /\ UNCHANGED <<envUrl, envName, others, doc, out>>

\* POST /api/seed on a store whose calls all return.
SeedMoviesWorking ==
    LET o == seed_movies(DbConfigured, movie, nextId, 0)
    IN  /\ movie' = o.movie
        /\ nextId' = o.nextId
        /\ resp' = o.resp
        /\ raised' = o.raised
        /\ UNCHANGED <<envUrl, envName, others, doc, out>>

\* GET /api/rows, with its read raising or not.
GetRows ==
    \E f \in ReadFaults :
        LET o == get_rows(DbConfigured, movie, nextId, f)
        IN  /\ movie' = o.movie
            /\ nextId' = o.nextId
            /\ resp' = o.resp
            /\ raised' = o.raised
            /\ UNCHANGED <<envUrl, envName, others, doc, out>>

\* GET /api/rows on a store whose calls all return.
GetRowsWorking ==
    LET o == get_rows(DbConfigured, movie, nextId, 0)
    IN  /\ movie' = o.movie
        /\ nextId' = o.nextId
        /\ resp' = o.resp
        /\ raised' = o.raised
        /\ UNCHANGED <<envUrl, envName, others, doc, out>>

\* GET /test, with its listing raising (with any text) or not.
TestDatabase ==
    \E f \in ReadFaults, e \in ErrTexts :
        LET o == test_database(DbConfigured, movie, nextId, others, f, e,
                               envUrl, envName)
        IN  /\ movie' = o.movie
            /\ nextId' = o.nextId
            /\ resp' = o.resp
            /\ raised' = o.raised
            /\ UNCHANGED <<envUrl, envName, others, doc, out>>

\* GET /test on a store whose calls all return.
TestDatabaseWorking ==
    LET o == test_database(DbConfigured, movie, nextId, others, 0, <<>>,
                           envUrl, envName)
    IN  /\ movie' = o.movie
        /\ nextId' = o.nextId
        /\ resp' = o.resp
        /\ raised' = o.raised
        /\ UNCHANGED <<envUrl, envName, others, doc, out>>

\* A direct call of serialize_movie.
SerializeMovie ==
    /\ out' = serialize_movie(doc)
    /\ UNCHANGED <<envUrl, envName, movie, nextId, others, resp, raised, doc>>

\* ------------------------------------------------------------ specifications

\* The process starts on an empty store; the environment may or may not name one.
Init ==
    /\ envUrl \in BOOLEAN
    /\ envName \in BOOLEAN
    /\ movie = <<>>
    /\ nextId = 1
    /\ others \in { OtherNames(k) : k \in 0 .. MaxOthers }
    /\ resp = NoResponse
    /\ raised = ""
    /\ doc = EmptyDict
    /\ out = NotCalled

Next == ReadRoot \/ SeedMovies \/ GetRows \/ TestDatabase

\* Any request at any time; any store call may raise.
Spec == Init /\ [][Next]_vars

NextWorking == ReadRoot \/ SeedMoviesWorking \/ GetRowsWorking \/ TestDatabaseWorking

\* Single writer, working store: no store call raises.
SpecWorking == Init /\ [][NextWorking]_vars

\* The documents an administrator may have put at place i of the collection:
\* the store gives each its id; category and description are optional.
StoredDocs(i) ==
    LET base == [_id |-> ObjectId(i), title |-> Str("T" \o ToString(i)),
                 image |-> Str("I" \o ToString(i))]
        cats == {<<>>} \cup { [category |-> c] :
                    c \in {None, Str(""), Str("X"), Str("Y"), Str("Featured")} }
        descs == {<<>>, [description |-> Str("D")]}
    IN  { base @@ c @@ d : c \in cats, d \in descs }

RECURSIVE StoredSeqs(_)
StoredSeqs(n) ==
    IF n = 0
    THEN {<<>>}
    ELSE { Append(s, d) : s \in StoredSeqs(n - 1), d \in StoredDocs(n) }

\* A store that was populated from outside, read through a configured gateway.
InitRows ==
    /\ envUrl = TRUE
    /\ envName = TRUE
    /\ movie \in UNION { StoredSeqs(n) : n \in 0 .. MaxDocs }
    /\ nextId = Len(movie) + 1
    /\ others = <<>>
    /\ resp = NoResponse
    /\ raised = ""
    /\ doc = EmptyDict
    /\ out = NotCalled

NextRows == GetRows

SpecRows == InitRows /\ [][NextRows]_vars

\* The documents serialize_movie may be given: any subset of the attributes,
\* each with a value of its type or an explicit null.
AttrValues ==
    [_id |-> {ObjectId(7)},
     title |-> {Str("T")},
     image |-> {Str("I")},
     category |-> {Str("X"), None},
     description |-> {Str("D"), None},
     year |-> {IntV(1999), IntV(0)},
     rating |-> {FloatV(75)}]

Docs ==
    UNION { { d \in [K -> UNION { AttrValues[k] : k \in K }] :
                  \A k \in K : d[k] \in AttrValues[k] } :
            K \in SUBSET DOMAIN AttrValues }

InitSerialize ==
    /\ envUrl = TRUE
    /\ envName = TRUE
    /\ movie = <<>>
    /\ nextId = 1
    /\ others = <<>>
    /\ resp = NoResponse
    /\ raised = ""
    /\ doc \in Docs
    /\ out = NotCalled

NextSerialize == SerializeMovie

SpecSerialize == InitSerialize /\ [][NextSerialize]_vars

\* ------------------------------------------------------------ the properties

IsPrefix(s, t) == Len(s) <= Len(t) /\ SubSeq(t, 1, Len(s)) = s

TitlesOf(seq) == [i \in 1 .. Len(seq) |-> seq[i].title]

IdsOf(seq) == [i \in 1 .. Len(seq) |-> seq[i].id]

\* The document without the id the store gave it.
WithoutId(d) == [k \in DOMAIN d \ {"_id"} |-> d[k]]

\* The places <<key, index>> of a rows mapping that show the movie titled t.
PlacesOf(body, t) ==
    { p \in UNION { {k} \X DOMAIN body[k] : k \in DOMAIN body } :
          body[p[1]][p[2]].title = t }

\* The keys of a rows mapping under which document d is shown.
KeysOf(body, d) == { k \in DOMAIN body : \E j \in DOMAIN body[k] : body[k][j].title = d.title }

\* A rows response computed from a store read that succeeded.
RowsFromStore == resp.route = "rows" /\ resp.status = 200 /\ raised = ""

\* C1: with a working store, a seed of the empty collection inserts the N
\* sample records, in order, and reports inserted = N; every seed of a
\* collection that holds documents reports inserted = 0 and changes nothing; so
\* after any seed the collection holds exactly N documents.
C1_SeedIdempotent ==
    [][ (DbConfigured /\ resp'.route = "seed") =>
            /\ resp'.status = 200
            /\ Len(movie') = N
            /\ \A i \in 1 .. N : WithoutId(movie'[i]) = sample_movies[i]
            /\ IF Len(movie) = 0
               THEN resp'.body.inserted = N
               ELSE resp'.body.inserted = 0 /\ movie' = movie ]_vars

\* A later seed has answered "inserted 0" on the seeded collection.
C1_Witness ==
    /\ DbConfigured
    /\ resp.route = "seed"
    /\ resp.status = 200
    /\ resp.body.inserted = 0
    /\ Len(movie) = N

\* C2: on a store that is not configured, or that cannot be reached when the
\* request starts, a seed answers 500 and inserts nothing, and rows answers 200
\* with the fallback payload.
C2_UnreachableStore ==
    [][ /\ (resp'.route = "seed" /\ (~DbConfigured \/ raised' = "count_documents")) =>
               (resp'.status = 500 /\ movie' = movie)
        /\ (resp'.route = "rows" /\ (~DbConfigured \/ raised' = "get_documents")) =>
               (resp'.status = 200 /\ resp'.body = fallback /\ movie' = movie) ]_vars

\* Rows has answered with the fallback on a store that is not configured.
C2_Witness ==
    /\ ~DbConfigured
    /\ resp.route = "rows"
    /\ raised = "db is None"
    /\ resp.status = 200
    /\ resp.body = fallback

\* C3: when the "movie" collection is empty, rows answers with exactly the four
\* fallback categories, holding ids "1","2" / "3","4" / "5" / "6", each entry
\* with the keys id, title and image only.
C3_EmptyStoreFallback ==
    (resp.route = "rows" /\ Len(movie) = 0) =>
        /\ resp.status = 200
        /\ DOMAIN resp.body = {Str("Popular on FLIX"), Str("Trending Now"),
                               Str("Top Picks for You"),
                               Str("Because you watched Sci-Fi")}
        /\ IdsOf(resp.body[Str("Popular on FLIX")]) = <<Str("1"), Str("2")>>
        /\ IdsOf(resp.body[Str("Trending Now")]) = <<Str("3"), Str("4")>>
        /\ IdsOf(resp.body[Str("Top Picks for You")]) = <<Str("5")>>
        /\ IdsOf(resp.body[Str("Because you watched Sci-Fi")]) = <<Str("6")>>
        /\ \A k \in DOMAIN resp.body : \A j \in DOMAIN resp.body[k] :
               DOMAIN resp.body[k][j] = {"id", "title", "image"}

\* Rows has read the empty collection of a configured store, without error.
C3_Witness ==
    /\ DbConfigured
    /\ RowsFromStore
    /\ Len(movie) = 0
    /\ Cardinality(DOMAIN resp.body) = 4

\* The key get_rows files a stored document under: its category, "Featured"
\* when it has none (absent, null or empty).
RowKey(d) ==
    IF "category" \in DOMAIN d /\ d.category \notin {None, Str("")}
    THEN d.category
    ELSE Str("Featured")

\* C4: the list under each category key is exactly the subsequence of that
\* category's stored movies, in store order.
C4_OrderPreserving ==
    (RowsFromStore /\ Len(movie) > 0) =>
        /\ DOMAIN resp.body = { RowKey(movie[i]) : i \in 1 .. Len(movie) }
        /\ \A k \in DOMAIN resp.body :
               TitlesOf(resp.body[k]) =
                   TitlesOf(SelectSeq(movie, LAMBDA d : RowKey(d) = k))

\* Rows of [A(cat=X), B(cat=Y), C(cat=X)] has answered X -> [A, C].
C4_Witness ==
    /\ RowsFromStore
    /\ Len(movie) = 3
    /\ Get(movie[1], "category") = Str("X")
    /\ Get(movie[2], "category") = Str("Y")
    /\ Get(movie[3], "category") = Str("X")
    /\ TitlesOf(resp.body[Str("X")]) = <<movie[1].title, movie[3].title>>

\* The document has a category attribute (one that is not null).
HasCategory(d) == "category" \in DOMAIN d /\ d.category # None

\* C5, as claimed: a stored movie with no category attribute is shown under
\* "Featured" and under no other key, and a movie that has a category is not
\* shown under "Featured" unless "Featured" is its category.
C5_FeaturedOnlyWithoutCategory ==
    (RowsFromStore /\ Len(movie) > 0) =>
        \A i \in 1 .. Len(movie) :
            /\ ~HasCategory(movie[i]) => KeysOf(resp.body, movie[i]) = {Str("Featured")}
            /\ (HasCategory(movie[i]) /\ Str("Featured") \in KeysOf(resp.body, movie[i]))
                   => movie[i].category = Str("Featured")

\* C5, amended: a stored movie whose category is absent, null or the empty
\* string is shown under "Featured" and under no other key; a movie whose
\* category is a non-empty string is shown under that category and no other.
C5_FeaturedWhenNoOrEmptyCategory ==
    (RowsFromStore /\ Len(movie) > 0) =>
        \A i \in 1 .. Len(movie) :
            IF ~HasCategory(movie[i]) \/ movie[i].category = Str("")
            THEN KeysOf(resp.body, movie[i]) = {Str("Featured")}
            ELSE KeysOf(resp.body, movie[i]) = {movie[i].category}

\* Rows has shown a movie without category, and one with an empty category,
\* under "Featured", beside a movie shown under its own category.
C5_Witness ==
    /\ RowsFromStore
    /\ Len(movie) = 3
    /\ "category" \notin DOMAIN movie[1]
    /\ Get(movie[2], "category") = Str("")
    /\ Get(movie[3], "category") = Str("X")
    /\ TitlesOf(resp.body[Str("Featured")]) = <<movie[1].title, movie[2].title>>
    /\ TitlesOf(resp.body[Str("X")]) = <<movie[3].title>>

\* The document's attribute that the response key k shows.
SourceKey(k) == IF k = "id" THEN "_id" ELSE k

C7_TestAlways200 ==
    resp.route = "test" =>
        /\ resp.status = 200
        /\ Len(resp.body.collections) <= 10
        /\ IsPrefix(resp.body.collections, list_collection_names(movie, others))

\* /test has listed a store of more than 10 collections.
C7_Witness ==
    /\ resp.route = "test"
    /\ raised = ""
    /\ Len(list_collection_names(movie, others)) > 10
    /\ Len(resp.body.collections) = 10

\* C8, as claimed: after every request the "movie" collection holds either no
\* document or all N sample records, also when an insert of the seed raises.
C8_SeedAllOrNothing == Len(movie) \in {0, N}

\* C9: only the seed changes the "movie" collection, and it only appends: root,
\* rows and test leave it as it is, no stored document is changed or removed,
\* and the number of documents never goes down.
C9_OnlySeedInserts ==
    [][ /\ resp'.route \in {"root", "rows", "test"} => movie' = movie
        /\ movie' # movie => resp'.route = "seed"
        /\ IsPrefix(movie, movie')
        /\ Len(movie') >= Len(movie) ]_vars

\* Rows has read the seeded collection, which still holds the N records.
C9_Witness ==
    /\ RowsFromStore
    /\ Len(movie) = N
    /\ \A i \in 1 .. N : WithoutId(movie[i]) = sample_movies[i]

\* C10: rows answers with the fallback payload exactly when its read fails or
\* yields no document; otherwise it shows the documents the collection holds at
\* that request, each once, as serialized movies and no fallback entry.
C10_FallbackIffNothingRead ==
    resp.route = "rows" =>
        /\ resp.status = 200
        /\ (resp.body = fallback) <=> (raised # "" \/ Len(movie) = 0)
        /\ (raised = "" /\ Len(movie) > 0) =>
               /\ \A i \in 1 .. Len(movie) :
                      Cardinality(PlacesOf(resp.body, movie[i].title)) = 1
               /\ \A k \in DOMAIN resp.body : \A j \in DOMAIN resp.body[k] :
                      /\ DOMAIN resp.body[k][j] = MovieKeys
                      /\ \E i \in 1 .. Len(movie) :
                             /\ resp.body[k][j].title = movie[i].title
                             /\ resp.body[k][j].category = movie[i].category
                             /\ resp.body[k][j].category = k

\* Rows has shown the seeded collection.
C10_Witness ==
    /\ RowsFromStore
    /\ Len(movie) = N
    /\ resp.body # fallback
    /\ Len(resp.body[Str("Trending Now")]) = 3

====
